---- MODULE Spec2Model ----
(***************************************************************************)
(* Model of the blastcam star-camera server: the client session threads    *)
(* (processClient), the astrometry thread (updateAstrometry, lostInSpace)  *)
(* and the accept loop of main, over the shared globals all_cmds,          *)
(* all_data, all_astro_params, all_camera_params, all_blob_params,         *)
(* command_lock, shutting_down and camera_raw.                             *)
(*                                                                         *)
(* Numbers.  A C float or double is held as an integer count of halves     *)
(* (1.5 is 3, -1.0 is -2), so that fractional values, ceil() and the       *)
(* float-to-int conversion of an assignment are all computable; a C int    *)
(* is held as itself.                                                      *)
(***************************************************************************)
EXTENDS Integers, Sequences, FiniteSets, TLC

\* ------------------------------------------------------------------ bounds
NumSessions == 2        \* client connections the accept loop can take
MaxCmds == 1            \* CommandPackets the clients send, whole program
MaxClientCmds == 2      \* CommandPackets the clients send, sessions alone
MaxSeqCmds == 1         \* CommandPackets a client alone sends
MaxSolves == 1          \* star fields the solver can match in total

Sessions == 1..NumSessions

\* ------------------------------------------------------- number conversions
\* The double/float value of the whole number n.
D(n) == 2 * n

\* C conversion of a float to int: truncation toward zero.
FloatToInt(h) == IF h >= 0 THEN h \div 2 ELSE -((-h) \div 2)

\* ceil() of a double, as a double.
Ceil(h) == 2 * (-((-h) \div 2))

\* ------------------------------------------------------------ initial data
backyard_lat == 81       \* 40.79166879 deg, to the nearest half
backyard_long == -147    \* -73.68133399 deg, to the nearest half
backyard_hm == 118       \* 59.24 m, to the nearest half
init_logodds == 200      \* 1e8, scaled down to keep the numbers small

InitAstro ==
    [rawtime |-> 0, logodds |-> init_logodds, latitude |-> backyard_lat,
     longitude |-> backyard_long, hm |-> backyard_hm,
     ra |-> 0, dec |-> 0, fr |-> 0, ps |-> 0, ir |-> 0, alt |-> 0, az |-> 0]

\* The camera and blob globals are defined in lens_adapter.c and camera.c;
\* the fields are the ones processClient and camera.h name.
InitCamera ==
    [exposure_time |-> D(100), change_exposure_bool |-> 0, focus_mode |-> 0,
     start_focus_pos |-> 0, end_focus_pos |-> 0, focus_step |-> 0,
     focus_inf |-> 0, focus_position |-> D(0), max_aperture |-> 0,
     aperture_steps |-> 0]

InitBlob ==
    [spike_limit |-> 3, dynamic_hot_pixels |-> 1, r_smooth |-> 2,
     high_pass_filter |-> 0, r_high_pass_filter |-> 10,
     centroid_search_border |-> 1, filter_return_image |-> 0,
     n_sigma |-> D(2), unique_star_spacing |-> 15,
     make_static_hp_mask |-> 0, use_static_hp_mask |-> 1]

\* struct commands all_cmds = {0}
ZeroCmd ==
    [logodds |-> 0, latitude |-> 0, longitude |-> 0, height |-> 0,
     exposure |-> 0, focus_pos |-> 0, focus_mode |-> 0, start_focus_pos |-> 0,
     end_focus_pos |-> 0, focus_step |-> 0, set_focus_inf |-> 0,
     aperture_steps |-> 0, set_max_aperture |-> 0, make_hp |-> 0, use_hp |-> 0,
     blob_params |-> <<0, 0, 0, 0, 0, 0, 0, 0, 0>>]

\* struct telemetry all_data = {0}
ZeroTelemetry ==
    [astrom |-> [f \in DOMAIN InitAstro |-> 0],
     cam_settings |-> [f \in DOMAIN InitCamera |-> 0],
     current_blob_params |-> [f \in DOMAIN InitBlob |-> 0]]

\* blob_params[i] of a command is merged into this field of all_blob_params.
BlobField ==
    <<"spike_limit", "dynamic_hot_pixels", "r_smooth", "high_pass_filter",
      "r_high_pass_filter", "centroid_search_border", "filter_return_image",
      "n_sigma", "unique_star_spacing">>

\* The indices whose assignment is under "if (all_cmds.blob_params[i] >= 0)".
BlobGuarded == {0, 2, 4, 5, 7, 8}

\* The value stored by all_blob_params.<field i> = v: n_sigma is a float,
\* every other field an int.
BlobStore(i, v) == IF i = 7 THEN v ELSE FloatToInt(v)

\* ------------------------------------------------------- command packets
\* A packet that asks for nothing: every sentinel set, the exposure as it is,
\* the unguarded fields as they are at start.
NoChange ==
    [logodds |-> init_logodds, latitude |-> backyard_lat,
     longitude |-> backyard_long, height |-> backyard_hm,
     exposure |-> D(100), focus_pos |-> D(-1), focus_mode |-> 0,
     start_focus_pos |-> 0, end_focus_pos |-> 0, focus_step |-> 0,
     set_focus_inf |-> 0, aperture_steps |-> 0, set_max_aperture |-> 0,
     make_hp |-> 0, use_hp |-> 1,
     blob_params |-> <<D(-1), D(1), D(-1), D(0), D(-1), D(-1), D(0), D(-1), D(-1)>>]

\* Two operators' packets that touch disjoint guarded fields.
CmdA ==
    [NoChange EXCEPT !.logodds = 2, !.focus_pos = D(7), !.focus_mode = 1,
                     !.make_hp = 20]
CmdB ==
    [NoChange EXCEPT !.logodds = 4, !.exposure = D(300), !.use_hp = 0,
                     !.blob_params = [@ EXCEPT ![1] = D(5)]]
Cmds == {CmdA, CmdB}
StreamCmds == {CmdA}

\* Packets for one session alone: every guarded field with each kind of value
\* (-1, -0.5, 0, 0.5, 2.5), the other guarded fields all sentinel or all set.
GuardVals == {-2, -1, 0, 1, 5}
OtherVals == {D(-1), D(4)}
BlobCmd(i, v, o) ==
    [NoChange EXCEPT !.focus_pos = IF o < 0 THEN D(-1) ELSE D(6),
                     !.blob_params = [k \in 1..9 |->
                                        IF k = i + 1 THEN v
                                        ELSE IF (k - 1) \in BlobGuarded THEN o
                                        ELSE @[k]]]
FocusVals == {D(-1), D(-2), D(0), D(7)}
FocusCmd(p, o) ==
    [NoChange EXCEPT !.focus_pos = p, !.set_focus_inf = 1,
                     !.blob_params = [k \in 1..9 |->
                                        IF (k - 1) \in BlobGuarded THEN o ELSE @[k]]]
ExposureVals == {199, 200, 201, 202, 203}
ExposureCmd(e) == [NoChange EXCEPT !.exposure = e]
\* Packets that set every unguarded field: the doubles to v + 0.5, the ints to
\* v, the three unguarded blob parameters (floats) to w; focus_pos is 7.
IntVals == {0, 1, 7}
FlagVals == {D(0), D(1), 1, 3, -1}
UnguardedCmd(v, w) ==
    [NoChange EXCEPT !.logodds = D(v) + 1, !.latitude = D(v) + 1,
                     !.longitude = D(v) + 1, !.height = D(v) + 1,
                     !.focus_pos = D(7), !.focus_mode = v,
                     !.start_focus_pos = v, !.end_focus_pos = v,
                     !.focus_step = v, !.set_focus_inf = v,
                     !.aperture_steps = v, !.set_max_aperture = v,
                     !.make_hp = v, !.use_hp = v,
                     !.blob_params = [k \in 1..9 |->
                                        IF (k - 1) \in BlobGuarded THEN @[k] ELSE w]]
SeqCmds ==
    {BlobCmd(i, v, o) : i \in BlobGuarded, v \in GuardVals, o \in OtherVals}
    \cup {FocusCmd(p, o) : p \in FocusVals, o \in OtherVals}
    \cup {ExposureCmd(e) : e \in ExposureVals}
    \cup {UnguardedCmd(v, w) : v \in IntVals, w \in FlagVals}

\* ------------------------------------------------------------------- state
VARIABLES
    pc,                 \* per session: the statement of processClient it is at
    socket,             \* per session: the local socket, 0 before its thread starts
    recv_status,        \* per session: the local recv_status
    closes,             \* per session: close(socket) calls made
    all_cmds, all_data,
    all_astro_params, all_camera_params, all_blob_params,
    command_lock, shutting_down, camera_raw,
    spc,                \* the astrometry thread's position
    best_match_solves,  \* solver->best_match_solves after solver_run
    wcs,                \* the solution solver_run found
    sol_status,         \* lostInSpace's local sol_status
    datafile,           \* the observation log, as the sequence of items written
    nsolved,            \* lostInSpace calls that returned 1
    field,              \* star lists the solver holds (solver_set_field)
    indexes,            \* catalog partitions attached to the solver
    mycmd,              \* per session: the packet its recvfrom delivered this cycle
    arrivals,           \* the packets delivered so far, in order, with the session
    wire,               \* per session: what it has sent in this cycle
    seen                \* (logodds, focus_mode, make_static_hp_mask) triples the
                        \* three groups have jointly held

sessVars == <<pc, socket, recv_status, closes, mycmd, wire>>
stateVars == <<all_astro_params, all_camera_params, all_blob_params, seen>>
solverVars == <<spc, best_match_solves, wcs, sol_status, datafile,
                nsolved, camera_raw, field, indexes>>
vars == <<pc, socket, recv_status, closes, all_cmds, all_data, all_astro_params,
          all_camera_params, all_blob_params, command_lock, shutting_down,
          camera_raw, spc, best_match_solves, wcs, sol_status,
          datafile, nsolved, field, indexes, mycmd, arrivals, wire, seen>>

None == [none |-> TRUE]

\* The joint value of the three groups, cut down to one field of each.
Proj(a, c, b) == <<a.logodds, c.focus_mode, b.make_static_hp_mask>>

Init ==
    /\ pc = [s \in Sessions |-> "idle"]
    /\ socket = [s \in Sessions |-> 0]
    /\ recv_status = [s \in Sessions |-> 0]
    /\ closes = [s \in Sessions |-> 0]
    /\ all_cmds = ZeroCmd
    /\ all_data = ZeroTelemetry
    /\ all_astro_params = InitAstro
    /\ all_camera_params = InitCamera
    /\ all_blob_params = InitBlob
    /\ command_lock = 0
    /\ shutting_down = 0
    /\ camera_raw = 0
    /\ spc = "while"
    /\ best_match_solves = FALSE
    /\ wcs = 0
    /\ sol_status = 0
    /\ datafile = <<>>
    /\ nsolved = 0
    /\ field = 0
    /\ indexes = {}
    /\ mycmd = [s \in Sessions |-> None]
    /\ arrivals = <<>>
    /\ wire = [s \in Sessions |-> <<>>]
    /\ seen = {Proj(InitAstro, InitCamera, InitBlob)}

\* A session moves from statement "from" to statement "to".
Goto(s, from, to) ==
    /\ pc[s] = from
    /\ pc' = [pc EXCEPT ![s] = to]


\* sizeof(struct commands): 5 doubles, 1 float, 9 ints, 9 floats, packed.
sizeof_commands == 116

\* ------------------------------------------------------------ main: accept
\* The descriptor accept() returns for the connection of client s.
Fd(s) == s + 3

\* One iteration of the accept loop: accept() returned a connection,
\* pthread_create started processClient on it, and the thread has taken its
\* socket from its arguments (lines 130-133).
AcceptClient(s) ==
    /\ Goto(s, "idle", "recv")
    /\ socket' = [socket EXCEPT ![s] = Fd(s)]
    /\ UNCHANGED <<recv_status, closes, mycmd, wire, all_cmds, all_data,
                   stateVars, command_lock, shutting_down, solverVars, arrivals>>

\* One iteration of the accept loop: accept() returned -1, "New client did
\* not connect."; nothing is created and the loop goes on.
AcceptFails == UNCHANGED vars

\* One iteration of the accept loop: accept() returned a connection and
\* pthread_create returned an error (EAGAIN: no resources for one more
\* thread).  The error number is positive, so the test "< 0" of line 340 is
\* false; either way no thread runs, the descriptor stays open and the loop
\* goes on.
CreateFails(s) ==
    /\ Goto(s, "idle", "nothread")
    /\ UNCHANGED <<socket, recv_status, closes, mycmd, wire, all_cmds, all_data,
                   stateVars, command_lock, shutting_down, solverVars, arrivals>>

\* ------------------------------------------------ processClient: recvfrom
\* recvfrom filled all_cmds with a client's packet c; the clients send at
\* most max packets.
RecvCommand(s, c, max) ==
    /\ Goto(s, "recv", "poll")
    /\ Len(arrivals) < max
    /\ all_cmds' = c
    /\ recv_status' = [recv_status EXCEPT ![s] = sizeof_commands]
    /\ mycmd' = [mycmd EXCEPT ![s] = c]
    /\ arrivals' = Append(arrivals, [sess |-> s, cmd |-> c])
    /\ wire' = [wire EXCEPT ![s] = <<>>]
    /\ UNCHANGED <<socket, closes, all_data, stateVars, command_lock, shutting_down,
                   solverVars>>

\* recvfrom filled all_cmds with the packet c of a client that sends again and
\* again; these packets are not entered in arrivals.
RecvStream(s, c) ==
    /\ Goto(s, "recv", "poll")
    /\ all_cmds' = c
    /\ recv_status' = [recv_status EXCEPT ![s] = sizeof_commands]
    /\ mycmd' = [mycmd EXCEPT ![s] = c]
    /\ wire' = [wire EXCEPT ![s] = <<>>]
    /\ UNCHANGED <<socket, closes, all_data, stateVars, command_lock, shutting_down,
                   solverVars, arrivals>>

\* recvfrom timed out or failed: recv_status == -1, the else branch is skipped.
RecvNothing(s) ==
    /\ Goto(s, "recv", "cp_astro")
    /\ recv_status' = [recv_status EXCEPT ![s] = -1]
    /\ mycmd' = [mycmd EXCEPT ![s] = None]
    /\ wire' = [wire EXCEPT ![s] = <<>>]
    /\ UNCHANGED <<socket, closes, all_cmds, all_data, stateVars, command_lock,
                   shutting_down, solverVars, arrivals>>

\* recvfrom returned 0 (the peer shut its side down): all_cmds is not
\* written, and recv_status != -1 takes the else branch.
RecvClosed(s) ==
    /\ Goto(s, "recv", "poll")
    /\ recv_status' = [recv_status EXCEPT ![s] = 0]
    /\ mycmd' = [mycmd EXCEPT ![s] = None]
    /\ wire' = [wire EXCEPT ![s] = <<>>]
    /\ UNCHANGED <<socket, closes, all_cmds, all_data, stateVars, command_lock,
                   shutting_down, solverVars, arrivals>>

\* --------------------------------------------------- processClient: gate
\* while (command_lock) usleep(100000);  one test of the flag.
Poll(s) ==
    /\ pc[s] = "poll"
    /\ IF command_lock # 0
       THEN UNCHANGED vars
       ELSE /\ pc' = [pc EXCEPT ![s] = "lock"]
            /\ UNCHANGED <<socket, recv_status, closes, mycmd, wire, all_cmds, all_data,
                           stateVars, command_lock, shutting_down, solverVars,
                           arrivals>>

\* command_lock = 1;
Lock(s) ==
    /\ Goto(s, "lock", "astro")
    /\ command_lock' = 1
    /\ UNCHANGED <<socket, recv_status, closes, mycmd, wire, all_cmds, all_data,
                   stateVars, shutting_down, solverVars, arrivals>>

\* Unlock as it would be with the snapshot taken only when no command came:
\* the session goes from the release straight to the send.
UnlockSkipsSnapshot(s) ==
    /\ Goto(s, "unlock", "send_tm")
    /\ command_lock' = 0
    /\ UNCHANGED <<socket, recv_status, closes, mycmd, wire, all_cmds, all_data,
                   stateVars, shutting_down, solverVars, arrivals>>

\* Unlock as it would be with the release left out.
UnlockKeepsFlag(s) ==
    /\ Goto(s, "unlock", "cp_astro")
    /\ UNCHANGED <<socket, recv_status, closes, mycmd, wire, all_cmds, all_data,
                   stateVars, command_lock, shutting_down, solverVars, arrivals>>

\* command_lock = 0;
Unlock(s) ==
    /\ Goto(s, "unlock", "cp_astro")
    /\ command_lock' = 0
    /\ UNCHANGED <<socket, recv_status, closes, mycmd, wire, all_cmds, all_data,
                   stateVars, shutting_down, solverVars, arrivals>>

\* -------------------------------------- processClient: command application
\* MergeAstro as it would be if the whole struct were built from the command,
\* the solved position zeroed.
MergeAstroWhole(cmd, a) ==
    [a EXCEPT !.logodds = cmd.logodds, !.latitude = cmd.latitude,
              !.longitude = cmd.longitude, !.hm = cmd.height,
              !.ra = 0, !.dec = 0]

\* all_astro_params.logodds/latitude/longitude/hm = all_cmds....
MergeAstro(cmd, a) ==
    [a EXCEPT !.logodds = cmd.logodds, !.latitude = cmd.latitude,
              !.longitude = cmd.longitude, !.hm = cmd.height]

\* ExposureDiffers as it would be without the rounding.
ExposureDiffersExact(cmd, c) == cmd.exposure # c.exposure_time

\* if (ceil(all_cmds.exposure) != ceil(all_camera_params.exposure_time))
ExposureDiffers(cmd, c) == Ceil(cmd.exposure) # Ceil(c.exposure_time)

\* ... { exposure_time = all_cmds.exposure; change_exposure_bool = 1; }
MergeExposure(cmd, c) ==
    IF ExposureDiffers(cmd, c)
    THEN [c EXCEPT !.exposure_time = cmd.exposure, !.change_exposure_bool = 1]
    ELSE c

\* if (all_cmds.focus_pos != -1)
FocusRequested(cmd) == cmd.focus_pos # D(-1)

\* MergeFocus as it would be if the infinity-focus flag held the
\* focus-position write back.
MergeFocusInfFirst(cmd, c) ==
    [c EXCEPT !.focus_mode = cmd.focus_mode,
              !.start_focus_pos = cmd.start_focus_pos,
              !.end_focus_pos = cmd.end_focus_pos,
              !.focus_step = cmd.focus_step,
              !.focus_inf = cmd.set_focus_inf,
              !.focus_position = IF FocusRequested(cmd) /\ cmd.set_focus_inf # 1
                                 THEN cmd.focus_pos ELSE @]

\* focus_mode .. focus_step, focus_inf, then the guarded focus_position.
MergeFocus(cmd, c) ==
    [c EXCEPT !.focus_mode = cmd.focus_mode,
              !.start_focus_pos = cmd.start_focus_pos,
              !.end_focus_pos = cmd.end_focus_pos,
              !.focus_step = cmd.focus_step,
              !.focus_inf = cmd.set_focus_inf,
              !.focus_position = IF FocusRequested(cmd) THEN cmd.focus_pos ELSE @]

\* all_camera_params.max_aperture/aperture_steps = ...
MergeAperture(cmd, c) ==
    [c EXCEPT !.max_aperture = cmd.set_max_aperture,
              !.aperture_steps = cmd.aperture_steps]

\* The camera statements in their order.
MergeCamera(cmd, c) == MergeAperture(cmd, MergeFocus(cmd, MergeExposure(cmd, c)))

\* BlobRequested as it would be with "> 0" for ">= 0".
BlobRequestedPositive(i, cmd) == i \in BlobGuarded => cmd.blob_params[i + 1] > 0

\* if (all_cmds.blob_params[i] >= 0), for the guarded indices.
BlobRequested(i, cmd) == i \in BlobGuarded => cmd.blob_params[i + 1] >= 0

\* The index of blob_params that feeds field f.
BlobIndex(f) == CHOOSE i \in 0..8 : BlobField[i + 1] = f

\* make/use_static_hp_mask, then the statement of each blob_params[i].
MergeBlob(cmd, b) ==
    [f \in DOMAIN b |->
        IF f = "make_static_hp_mask" THEN cmd.make_hp
        ELSE IF f = "use_static_hp_mask" THEN cmd.use_hp
        ELSE IF BlobRequested(BlobIndex(f), cmd)
             THEN BlobStore(BlobIndex(f), cmd.blob_params[BlobIndex(f) + 1])
             ELSE b[f]]

\* What a step of the application leaves alone.
ApplyFrame == UNCHANGED <<socket, recv_status, closes, mycmd, wire, all_cmds, all_data,
                          command_lock, shutting_down, solverVars, arrivals>>

\* Lines 152-155.
ApplyAstro(s) ==
    /\ Goto(s, "astro", "camera")
    /\ all_astro_params' = MergeAstro(all_cmds, all_astro_params)
    /\ seen' = seen \cup {Proj(all_astro_params', all_camera_params, all_blob_params)}
    /\ UNCHANGED <<all_camera_params, all_blob_params>>
    /\ ApplyFrame

\* Lines 157-179.
ApplyCamera(s) ==
    /\ Goto(s, "camera", "adjust")
    /\ all_camera_params' = MergeCamera(all_cmds, all_camera_params)
    /\ seen' = seen \cup {Proj(all_astro_params, all_camera_params', all_blob_params)}
    /\ UNCHANGED <<all_astro_params, all_blob_params>>
    /\ ApplyFrame

\* adjustCameraHardware(): pushes the camera parameters to the hardware.
AdjustHardware(s) ==
    /\ Goto(s, "adjust", "blob")
    /\ UNCHANGED stateVars
    /\ ApplyFrame

\* Lines 186-217.
ApplyBlob(s) ==
    /\ Goto(s, "blob", "unlock")
    /\ all_blob_params' = MergeBlob(all_cmds, all_blob_params)
    /\ seen' = seen \cup {Proj(all_astro_params, all_camera_params, all_blob_params')}
    /\ UNCHANGED <<all_astro_params, all_camera_params>>
    /\ ApplyFrame

\* ------------------------------------------- processClient: snapshot, send
CopyFrame == UNCHANGED <<socket, recv_status, closes, mycmd, wire, all_cmds, stateVars,
                         command_lock, shutting_down, solverVars, arrivals>>

\* memcpy(&all_data.astrom, &all_astro_params, sizeof(all_astro_params));
CopyAstro(s) ==
    /\ Goto(s, "cp_astro", "cp_cam")
    /\ all_data' = [all_data EXCEPT !.astrom = all_astro_params]
    /\ CopyFrame

\* memcpy(&all_data.cam_settings, &all_camera_params, ...);
CopyCamera(s) ==
    /\ Goto(s, "cp_cam", "cp_blob")
    /\ all_data' = [all_data EXCEPT !.cam_settings = all_camera_params]
    /\ CopyFrame

\* memcpy(&all_data.current_blob_params, &all_blob_params, ...);
CopyBlob(s) ==
    /\ Goto(s, "cp_blob", "send_tm")
    /\ all_data' = [all_data EXCEPT !.current_blob_params = all_blob_params]
    /\ CopyFrame

SendFrame == UNCHANGED <<socket, recv_status, closes, mycmd, all_cmds, all_data, stateVars,
                         command_lock, shutting_down, solverVars, arrivals>>

\* The length arguments of the two sends: both compile-time constants.
sizeof_telemetry == "sizeof(struct telemetry)"
CAMERA_WIDTH == 1936
CAMERA_HEIGHT == 1216

\* SendTelemetry as it would be without the break: the image is sent whether
\* the telemetry went out or not.
SendTelemetryNoBreak(s) ==
    /\ pc[s] = "send_tm"
    /\ pc' = [pc EXCEPT ![s] = "send_img"]
    /\ \/ wire' = [wire EXCEPT ![s] =
                     Append(@, [kind |-> "telemetry", fd |-> socket[s],
                                size |-> sizeof_telemetry, data |-> all_data])]
       \/ UNCHANGED wire
    /\ SendFrame

\* if (send(socket, &all_data, sizeof(struct telemetry), MSG_NOSIGNAL) <= 0) break;
SendTelemetry(s) ==
    /\ pc[s] = "send_tm"
    /\ \/ /\ pc' = [pc EXCEPT ![s] = "send_img"]
          /\ wire' = [wire EXCEPT ![s] =
                        Append(@, [kind |-> "telemetry", fd |-> socket[s],
                                   size |-> sizeof_telemetry, data |-> all_data])]
       \/ /\ pc' = [pc EXCEPT ![s] = "close"]
          /\ UNCHANGED wire
    /\ SendFrame

\* if (send(socket, camera_raw, CAMERA_WIDTH*CAMERA_HEIGHT, MSG_NOSIGNAL) <= 0) break;
SendImage(s) ==
    /\ pc[s] = "send_img"
    /\ \/ /\ pc' = [pc EXCEPT ![s] = "recv"]
          /\ wire' = [wire EXCEPT ![s] =
                        Append(@, [kind |-> "image", fd |-> socket[s],
                                   size |-> CAMERA_WIDTH * CAMERA_HEIGHT,
                                   data |-> camera_raw])]
       \/ /\ pc' = [pc EXCEPT ![s] = "close"]
          /\ UNCHANGED wire
    /\ SendFrame

\* Close as it would be with a second close(socket) left in the send branch.
CloseTwice(s) ==
    /\ Goto(s, "close", "done")
    /\ closes' = [closes EXCEPT ![s] = @ + 2]
    /\ UNCHANGED <<socket, recv_status, mycmd, wire, all_cmds, all_data, stateVars,
                   command_lock, shutting_down, solverVars, arrivals>>

\* close(socket); and the thread function returns.
Close(s) ==
    /\ Goto(s, "close", "done")
    /\ closes' = [closes EXCEPT ![s] = @ + 1]
    /\ UNCHANGED <<socket, recv_status, mycmd, wire, all_cmds, all_data, stateVars,
                   command_lock, shutting_down, solverVars, arrivals>>

\* The steps of processClient after the receive.
Serve(s) ==
    \/ Poll(s)
    \/ Lock(s)
    \/ ApplyAstro(s)
    \/ ApplyCamera(s)
    \/ AdjustHardware(s)
    \/ ApplyBlob(s)
    \/ Unlock(s)
    \/ CopyAstro(s)
    \/ CopyCamera(s)
    \/ CopyBlob(s)
    \/ SendTelemetry(s)
    \/ SendImage(s)
    \/ Close(s)

\* ------------------------------------------------- the astrometry thread
\* The observation log holds what fprintf wrote, item by item: a number, a
\* '|' or a newline.
Num(v) == <<"num", v>>
Bar == <<"|", 0>>
Newline == <<"\n", 0>>

\* fprintf(fptr, "%i|%lf|%lf|%lf|%lf|%.15f|%.15f|%lf|%f", num_blobs, ra, dec,
\*         fr, ps, alt, az, ir, astrom_time*1e-6)
LogRecord(num_blobs, a, elapsed) ==
    <<Num(num_blobs), Bar, Num(a.ra), Bar, Num(a.dec), Bar, Num(a.fr), Bar,
      Num(a.ps), Bar, Num(a.alt), Bar, Num(a.az), Bar, Num(a.ir), Bar,
      Num(elapsed)>>

\* The complete (newline-terminated) lines of a log.
CompleteLines(log) == Cardinality({i \in 1..Len(log) : log[i] = Newline})

\* The seven values lostInSpace derives from the solution w (tan_pixelxy2radec,
\* tan_pixel_scale, tan_get_orientation, iauAtco13, iauHd2pa): opaque library
\* results, all different from the initial 0.
Results(w) ==
    [ir |-> D(10 * w + 1), ra |-> D(10 * w + 2), dec |-> D(10 * w + 3),
     alt |-> D(10 * w + 4), az |-> D(10 * w + 5), fr |-> D(10 * w + 6),
     ps |-> D(10 * w + 7)]

ResultFields == {"ra", "dec", "fr", "ps", "ir", "alt", "az"}

SolverFrame == UNCHANGED <<socket, pc, recv_status, closes, mycmd, wire, all_cmds, all_data,
                           command_lock, shutting_down, arrivals>>

\* LoopTest as it would be with "while (1)".
LoopTestForever ==
    /\ spc = "while"
    /\ spc' = "capture"
    /\ UNCHANGED <<best_match_solves, wcs, sol_status, datafile, nsolved,
                   camera_raw, field, indexes, stateVars>>
    /\ SolverFrame

\* while (!shutting_down)
LoopTest ==
    /\ spc = "while"
    /\ spc' = IF shutting_down # 0 THEN "exited" ELSE "capture"
    /\ UNCHANGED <<best_match_solves, wcs, sol_status, datafile, nsolved,
                   camera_raw, field, indexes, stateVars>>
    /\ SolverFrame

\* doCameraAndAstrometry() up to its call of lostInSpace: a new frame is
\* written into the buffer camera_raw points to; the pointer stays.
Capture ==
    /\ spc = "capture"
    /\ spc' = "setup"
    /\ UNCHANGED <<camera_raw, best_match_solves, wcs, sol_status, datafile, nsolved,
                   field, indexes, stateVars>>
    /\ SolverFrame

\* The catalog, (*engine).indexes: each partition with the centre and the
\* radius of its footprint on the sky, in degrees.
Catalog ==
    <<[ra |-> D(0), dec |-> D(0), radius |-> D(5)],
      [ra |-> D(12), dec |-> D(13), radius |-> D(5)],
      [ra |-> D(100), dec |-> D(40), radius |-> D(5)]>>

\* dist2deg(hprange): the search radius, half the diagonal of the frame at
\* MAX_PS, about 2 degrees.
hprange == 4

Abs(x) == IF x < 0 THEN -x ELSE x

\* index_is_within_range(index, ra, dec, r): the footprint of the partition
\* reaches into the disc of radius r around (ra, dec).
index_is_within_range(i, r_a, d_ec, r) ==
    /\ Abs(Catalog[i].ra - r_a) <= r + Catalog[i].radius
    /\ Abs(Catalog[i].dec - d_ec) <= r + Catalog[i].radius

\* The loop of lines 135-145 for the values g.ra, g.dec of the locals ra, dec:
\* the partitions it hands to solver_add_index.
AddIndexes(g) ==
    {i \in 1..Len(Catalog) :
        \/ /\ g.ra >= D(-180)
           /\ g.dec >= D(-90)
           /\ index_is_within_range(i, g.ra, g.dec, hprange)
        \/ g.ra < D(-180) \/ g.dec < D(-90)}

\* The locals ra and dec of lostInSpace are declared without a value (line 84)
\* and first assigned at line 158, after the loop that reads them: what the
\* loop reads is whatever the stack holds, a value below the sentinel, a
\* position somewhere on the sky, or the position last written there.
Indeterminate ==
    {[ra |-> D(-200), dec |-> D(0)], [ra |-> D(100), dec |-> D(40)],
     [ra |-> all_astro_params.ra, dec |-> all_astro_params.dec]}

\* lostInSpace, lines 95-147: solver configuration, field, index selection.
Setup ==
    /\ spc = "setup"
    /\ spc' = "run"
    /\ field' = field + 1
    /\ \E g \in Indeterminate : indexes' = indexes \cup AddIndexes(g)
    /\ UNCHANGED <<best_match_solves, wcs, sol_status, datafile, nsolved,
                   camera_raw, stateVars>>
    /\ SolverFrame

\* solver_run(solver): the field matches the catalog or it does not; the
\* k-th field that matches has the solution k.
SolverRun ==
    /\ spc = "run"
    /\ spc' = "test"
    /\ \/ /\ nsolved < MaxSolves
          /\ best_match_solves' = TRUE
          /\ wcs' = nsolved + 1
       \/ /\ best_match_solves' = FALSE
          /\ UNCHANGED wcs
    /\ UNCHANGED <<sol_status, datafile, nsolved, camera_raw, field, indexes,
                   stateVars>>
    /\ SolverFrame

\* TestSolve as it would be with the test of best_match_solves left out.
TestSolveAlways ==
    /\ spc = "test"
    /\ sol_status' = 0
    /\ spc' = "write"
    /\ UNCHANGED <<best_match_solves, wcs, datafile, nsolved, camera_raw,
                   field, indexes, stateVars>>
    /\ SolverFrame

\* sol_status = 0; if ((*solver).best_match_solves) {
TestSolve ==
    /\ spc = "test"
    /\ sol_status' = 0
    /\ spc' = IF best_match_solves THEN "write" ELSE "cleanup"
    /\ UNCHANGED <<best_match_solves, wcs, datafile, nsolved, camera_raw,
                   field, indexes, stateVars>>
    /\ SolverFrame

\* Lines 156-197: the solution's values, then all_astro_params.ir .. ps.
WriteResults ==
    /\ spc = "write"
    /\ spc' = "log"
    /\ all_astro_params' =
         [f \in DOMAIN all_astro_params |->
            IF f \in ResultFields THEN Results(wcs)[f] ELSE all_astro_params[f]]
    /\ UNCHANGED <<best_match_solves, wcs, sol_status, datafile, nsolved,
                   camera_raw, field, indexes, all_camera_params, all_blob_params,
                   seen>>
    /\ SolverFrame

\* Lines 211-222: fopen(datafile, "a"); fprintf; fclose; sol_status = 1.
AppendLog ==
    /\ spc = "log"
    /\ spc' = "cleanup"
    /\ datafile' = datafile \o LogRecord(wcs + 2, all_astro_params, 1)
    /\ sol_status' = 1
    /\ UNCHANGED <<best_match_solves, wcs, nsolved, camera_raw, field, indexes,
                   stateVars>>
    /\ SolverFrame

\* Return as it would be without solver_clear_indexes.
ReturnKeepsIndexes ==
    /\ spc = "cleanup"
    /\ spc' = "while"
    /\ field' = 0
    /\ nsolved' = nsolved + sol_status
    /\ UNCHANGED <<best_match_solves, wcs, sol_status, datafile, camera_raw,
                   indexes, stateVars>>
    /\ SolverFrame

\* Lines 224-227: solver_cleanup_field, solver_clear_indexes and return
\* sol_status; back in updateAstrometry.
Return ==
    /\ spc = "cleanup"
    /\ spc' = "while"
    /\ field' = 0
    /\ indexes' = {}
    /\ nsolved' = nsolved + sol_status
    /\ UNCHANGED <<best_match_solves, wcs, sol_status, datafile, camera_raw,
                   stateVars>>
    /\ SolverFrame

SolveLoop ==
    \/ LoopTest
    \/ Capture
    \/ Setup
    \/ SolverRun
    \/ TestSolve
    \/ WriteResults
    \/ AppendLog
    \/ Return

\* clean(), the handler of SIGHUP, SIGINT and SIGTERM: asks for the shutdown.
Clean ==
    /\ shutting_down = 0
    /\ shutting_down' = 1
    /\ UNCHANGED <<sessVars, all_cmds, all_data, stateVars, command_lock,
                   solverVars, arrivals>>

\* ------------------------------------------------------- specifications
\* One client alone, sending the packets of SeqCmds and then closing.
NextSeq ==
    \/ AcceptClient(1)
    \/ \E c \in SeqCmds : RecvCommand(1, c, MaxSeqCmds)
    \/ RecvNothing(1)
    \/ RecvClosed(1)
    \/ Serve(1)
SpecSeq == Init /\ [][NextSeq]_vars

\* The client sessions among themselves, the astrometry thread not running.
NextClients ==
    \E s \in Sessions :
        \/ AcceptClient(s)
        \/ \E c \in Cmds : RecvCommand(s, c, MaxClientCmds)
        \/ RecvNothing(s)
        \/ Serve(s)
SpecClients == Init /\ [][NextClients]_vars

\* The astrometry thread beside one client.
NextSolve ==
    \/ AcceptClient(1)
    \/ \E c \in Cmds : RecvCommand(1, c, MaxCmds)
    \/ RecvNothing(1)
    \/ Serve(1)
    \/ SolveLoop
    \/ Clean
SpecSolve == Init /\ [][NextSolve]_vars

\* The same, the astrometry thread being scheduled again and again: it is a
\* thread of its own, and each of its steps returns.
SpecSolveFair == SpecSolve /\ WF_vars(SolveLoop)

\* The whole program, its clients keeping their connections open.
Next ==
    \/ \E s \in Sessions :
          \/ AcceptClient(s)
          \/ \E c \in Cmds : RecvCommand(s, c, MaxCmds)
          \/ RecvNothing(s)
          \/ Serve(s)
    \/ SolveLoop
    \/ Clean
Spec == Init /\ [][Next]_vars

\* The client sessions with clients that never stop sending, every session
\* thread being scheduled again and again: a thread that can take a step
\* from now on takes one (the receive times out, the sends return).
Thread(s) ==
    \/ \E c \in StreamCmds : RecvStream(s, c)
    \/ RecvNothing(s)
    \/ Serve(s)
NextGate == \E s \in Sessions : AcceptClient(s) \/ Thread(s)
SpecGateFair ==
    Init /\ [][NextGate]_vars /\ \A s \in Sessions : WF_vars(Thread(s))

\* The accept loop with every outcome of an iteration, and the sessions it
\* starts.
NextAccept ==
    \/ AcceptFails
    \/ \E s \in Sessions :
          \/ AcceptClient(s)
          \/ CreateFails(s)
          \/ \E c \in Cmds : RecvCommand(s, c, MaxCmds)
          \/ RecvNothing(s)
          \/ Serve(s)
SpecAccept == Init /\ [][NextAccept]_vars


\* ----------------------------------------------------------------- claims
\* The statements between "command_lock = 1" and "command_lock = 0".
GatePcs == {"astro", "camera", "adjust", "blob", "unlock"}
InGate(s) == pc[s] \in GatePcs

\* The statements after the receive and before the end of the application.
Applying(s) == pc[s] \in {"poll", "lock"} \cup GatePcs

\* The telemetry packets session s has sent in its current cycle.
Telemetry(s) ==
    {wire[s][i].data : i \in {j \in 1..Len(wire[s]) : wire[s][j].kind = "telemetry"}}

\* C1: gate mutual exclusion.  At most one session is between setting
\* command_lock to 1 and clearing it back to 0.
GateMutualExclusion == Cardinality({s \in Sessions : InGate(s)}) <= 1

\* C2: snapshot consistency.  Every telemetry packet a session sends holds
\* values the three groups jointly held at one instant: its (logodds,
\* focus_mode, make_static_hp_mask) is a triple the groups have held together.
SnapshotConsistency ==
    \A s \in Sessions : \A d \in Telemetry(s) :
        Proj(d.astrom, d.cam_settings, d.current_blob_params) \in seen

\* A command touches a guarded field when the field does not carry its
\* sentinel: -1 for focus_pos, any negative value for the blob parameters.
TouchesFocus(c) == c.focus_pos # D(-1)
TouchesBlob(c, i) == c.blob_params[i + 1] >= 0

\* No guarded field is touched by two of the delivered commands.
DisjointArrivals ==
    \A j, k \in 1..Len(arrivals) :
        j # k =>
            /\ ~(TouchesFocus(arrivals[j].cmd) /\ TouchesFocus(arrivals[k].cmd))
            /\ \A i \in BlobGuarded :
                 ~(TouchesBlob(arrivals[j].cmd, i) /\ TouchesBlob(arrivals[k].cmd, i))

\* Every session received one command and every application is over.
AllApplied ==
    /\ Len(arrivals) = NumSessions
    /\ \A s \in Sessions : \E j \in 1..Len(arrivals) : arrivals[j].sess = s
    /\ \A s \in Sessions : ~Applying(s)

\* C5: no lost updates.  When every session has received and applied one
\* command and the commands touch disjoint fields, each touched field holds the
\* value of the command that touched it.
NoLostUpdates ==
    (AllApplied /\ DisjointArrivals) =>
        \A j \in 1..Len(arrivals) :
            LET c == arrivals[j].cmd IN
            /\ TouchesFocus(c) => all_camera_params.focus_position = c.focus_pos
            /\ \A i \in BlobGuarded :
                 TouchesBlob(c, i) =>
                    all_blob_params[BlobField[i + 1]] = BlobStore(i, c.blob_params[i + 1])

\* C6: a receive timeout is not fatal.  A session whose receive returned -1
\* is not in the command application, the telemetry it sends is a state the
\* three groups held, the image follows it, and after both sends it is still
\* connected and at its next receive.
TimeoutCycleReports ==
    \A s \in Sessions :
        (recv_status[s] = -1 /\ pc[s] # "idle") =>
            /\ ~Applying(s)
            /\ \A d \in Telemetry(s) :
                 Proj(d.astrom, d.cam_settings, d.current_blob_params) \in seen
            /\ Len(wire[s]) = 2 =>
                 /\ wire[s][1].kind = "telemetry"
                 /\ wire[s][2].kind = "image"
                 /\ closes[s] = 0


\* The parts of C6 other than the packet's contents.
TimeoutCycleControl ==
    \A s \in Sessions :
        (recv_status[s] = -1 /\ pc[s] # "idle") =>
            /\ ~Applying(s)
            /\ Len(wire[s]) = 2 =>
                 /\ wire[s][1].kind = "telemetry"
                 /\ wire[s][2].kind = "image"
                 /\ closes[s] = 0

\* The guarded blob fields, as the numbers the command would have to equal:
\* an int field n is the float n.
AsFloat(i, n) == IF i = 7 THEN n ELSE D(n)

\* Session 1 executes lines 157-179, lines 186-217.
CameraStep == pc[1] = "camera" /\ pc'[1] = "adjust"
BlobStep == pc[1] = "blob" /\ pc'[1] = "unlock"

\* The focus rule of C3, the same in the claim and in its amended form.
FocusRule ==
    CameraStep =>
        all_camera_params'.focus_position =
            IF all_cmds.focus_pos = D(-1)
            THEN all_camera_params.focus_position
            ELSE all_cmds.focus_pos

ExposureRule ==
    [][CameraStep =>
         LET e == all_cmds.exposure
             x == all_camera_params.exposure_time
             up(h) == IF h % 2 = 0 THEN h ELSE h + 1
         IN  IF up(e) # up(x)
             THEN /\ all_camera_params'.exposure_time = e
                  /\ all_camera_params'.change_exposure_bool = 1
             ELSE /\ all_camera_params'.exposure_time = x
                  /\ all_camera_params'.change_exposure_bool =
                        all_camera_params.change_exposure_bool]_vars

\* An exposure of 100.5 ms has replaced 100 ms and raised the flag.
ExposureRuleWitness ==
    /\ pc[1] = "adjust"
    /\ all_cmds.exposure = 201
    /\ all_camera_params.exposure_time = 201
    /\ all_camera_params.change_exposure_bool = 1

\* An exposure of 99.5 ms has left 100 ms and the flag alone.
ExposureKeptWitness ==
    /\ pc[1] = "adjust"
    /\ all_cmds.exposure = 199
    /\ all_camera_params.exposure_time = D(100)
    /\ all_camera_params.change_exposure_bool = 0


\* The groups a, c, b hold what command cmd asks for.
Holds(a, c, b, cmd) ==
    /\ a.logodds = cmd.logodds
    /\ a.latitude = cmd.latitude
    /\ a.longitude = cmd.longitude
    /\ a.hm = cmd.height
    /\ c.exposure_time = cmd.exposure
         \/ c.exposure_time + (c.exposure_time % 2) = cmd.exposure + (cmd.exposure % 2)
    /\ c.focus_mode = cmd.focus_mode
    /\ c.start_focus_pos = cmd.start_focus_pos
    /\ c.end_focus_pos = cmd.end_focus_pos
    /\ c.focus_step = cmd.focus_step
    /\ c.focus_inf = cmd.set_focus_inf
    /\ TouchesFocus(cmd) => c.focus_position = cmd.focus_pos
    /\ c.max_aperture = cmd.set_max_aperture
    /\ c.aperture_steps = cmd.aperture_steps
    /\ b.make_static_hp_mask = cmd.make_hp
    /\ b.use_static_hp_mask = cmd.use_hp
    /\ \A i \in 0..8 :
         (i \in BlobGuarded => TouchesBlob(cmd, i)) =>
            b[BlobField[i + 1]] = BlobStore(i, cmd.blob_params[i + 1])

SnapshotPcs == {"cp_astro", "cp_cam", "cp_blob", "send_tm", "send_img"}

\* C8: own command before own snapshot.  In a cycle in which a session has
\* received a command, once it is at its snapshot the gate is released and the
\* groups hold its command, and the telemetry it sends holds its command (no
\* other session writing in between; the astrometry thread runs beside it).
OwnCommandFirst ==
    \A s \in Sessions :
        (recv_status[s] = sizeof_commands /\ mycmd[s] # None) =>
            /\ pc[s] \in SnapshotPcs =>
                 /\ command_lock = 0
                 /\ Holds(all_astro_params, all_camera_params, all_blob_params, mycmd[s])
            /\ \A d \in Telemetry(s) :
                 Holds(d.astrom, d.cam_settings, d.current_blob_params, mycmd[s])

\* Session 1 has sent the telemetry of a cycle in which it applied CmdA, after
\* the astrometry thread wrote a solution.
OwnCommandFirstWitness ==
    /\ pc[1] = "send_img"
    /\ mycmd[1] = CmdA
    /\ \E d \in Telemetry(1) :
         /\ d.cam_settings.focus_position = D(7)
         /\ d.astrom.logodds = 2
         /\ d.astrom.ra = Results(1).ra

\* C9: a failed solve has no effect.  From solver_run reporting no match to
\* the return of lostInSpace, no step changes a result field or the log, the
\* call returns 0 and the loop is back at its test.
FailedSolveNoEffect ==
    [][(spc \in {"test", "cleanup"} /\ ~best_match_solves) =>
         /\ \A f \in ResultFields : all_astro_params'[f] = all_astro_params[f]
         /\ datafile' = datafile
         /\ spc' # spc =>
              /\ sol_status' = 0
              /\ nsolved' = nsolved
              /\ spc' = IF spc = "test" THEN "cleanup" ELSE "while"]_vars

\* A failed call is about to return, after an earlier call that solved: the
\* results and the record of that call are as they were.
FailedSolveWitness ==
    /\ spc = "cleanup"
    /\ ~best_match_solves
    /\ sol_status = 0
    /\ nsolved = 1
    /\ \A f \in ResultFields : all_astro_params[f] = Results(1)[f]
    /\ datafile = LogRecord(3, all_astro_params, 1)

\* C10: one line per successful solve.  Between calls of lostInSpace the log
\* holds as many complete lines as there were calls that returned 1.
LogOneLinePerSolve == spc = "while" => CompleteLines(datafile) = nsolved

\* The parts of C10 other than the line count: the log only grows, by one
\* record per call that returns 1, written after the seven result fields.
LogAppendOnly ==
    [][/\ Len(datafile') >= Len(datafile)
       /\ SubSeq(datafile', 1, Len(datafile)) = datafile
       /\ datafile' # datafile =>
            /\ \A f \in ResultFields : all_astro_params[f] = Results(wcs)[f]
            /\ sol_status' = 1]_vars

\* C7: a send failure is isolated.  The step on which a send fails and the
\* close that follows change no other session and not the astrometry thread;
\* the session closes its socket once and stays terminated; command_lock is
\* set only while some session is inside the gate; the astrometry thread
\* stops only for the shutdown.
SendFails(s) == pc[s] \in {"send_tm", "send_img"} /\ pc'[s] = "close"
Closes(s) == pc[s] = "close" /\ pc'[s] # "close"
SendFailureIsolated ==
    /\ [](/\ \A s \in Sessions :
               /\ closes[s] = IF pc[s] = "done" THEN 1 ELSE 0
          /\ command_lock = 1 => \E s \in Sessions : InGate(s)
          /\ spc = "exited" => shutting_down = 1)
    /\ [][\A s \in Sessions :
            /\ (SendFails(s) \/ Closes(s)) =>
                 /\ \A o \in Sessions \ {s} :
                      pc'[o] = pc[o] /\ closes'[o] = closes[o]
                 /\ UNCHANGED <<command_lock, shutting_down, solverVars>>
            /\ SendFails(s) => closes'[s] = closes[s]
            /\ Closes(s) => pc'[s] = "done" /\ closes'[s] = closes[s] + 1
            /\ pc[s] = "done" => pc'[s] = "done"]_vars

\* Session 1 has terminated after a failed send while session 2 is inside the
\* gate and the astrometry thread is solving.
SendFailureWitness ==
    /\ pc[1] = "done"
    /\ closes[1] = 1
    /\ pc[2] = "camera"
    /\ command_lock = 1
    /\ spc = "run"

\* The previous pointing guess: the position of the last solve.
PreviousGuess == [ra |-> all_astro_params.ra, dec |-> all_astro_params.dec]

\* C11: index selection uses the previous pointing guess.  When solver_run
\* starts, the solver holds every partition of the catalog if the previous
\* guess is the unknown sentinel (ra < -180 or dec < -90), and otherwise
\* exactly the partitions whose footprint is within the search radius of the
\* previous guess.
IndexSelectionUsesGuess ==
    spc = "run" =>
        indexes =
            IF PreviousGuess.ra < D(-180) \/ PreviousGuess.dec < D(-90)
            THEN 1..Len(Catalog)
            ELSE {i \in 1..Len(Catalog) :
                    index_is_within_range(i, PreviousGuess.ra, PreviousGuess.dec,
                                          hprange)}

RequestFields == {"logodds", "latitude", "longitude", "hm"}

\* C12: writer partition of the astrometry state.  A step that changes a
\* request field (logodds, latitude, longitude, hm) is a session's step of
\* command application and changes no result field; a step that changes a
\* result field (ra, dec, fr, ps, ir, alt, az) is the astrometry thread's
\* write of a successful solve and changes no request field.
WriterPartition ==
    [][/\ (\E f \in RequestFields : all_astro_params'[f] # all_astro_params[f]) =>
            /\ \E s \in Sessions : pc[s] = "astro" /\ pc'[s] = "camera"
            /\ spc' = spc
            /\ \A f \in ResultFields : all_astro_params'[f] = all_astro_params[f]
       /\ (\E f \in ResultFields : all_astro_params'[f] # all_astro_params[f]) =>
            /\ spc = "write" /\ spc' = "log"
            /\ best_match_solves
            /\ pc' = pc
            /\ \A f \in RequestFields : all_astro_params'[f] = all_astro_params[f]]_vars

\* A session has written the request fields of CmdA after the astrometry
\* thread wrote the results of a solve, and both are in place.
WriterPartitionWitness ==
    /\ pc[2] = "camera"
    /\ all_astro_params.logodds = CmdA.logodds
    /\ \A f \in ResultFields : all_astro_params[f] = Results(1)[f]

\* C13: shutdown of the solve loop.  Once shutting_down is set the astrometry
\* thread starts no further iteration, finishes the one in progress and
\* terminates for good; setting the flag moves no session, and a session
\* ends only by its own failed send.
ShutdownStopsSolveLoop ==
    /\ [][shutting_down = 1 => ~(spc = "while" /\ spc' = "capture")]_vars
    /\ [][spc = "exited" => spc' = "exited"]_vars
    /\ [][shutting_down = 1 => shutting_down' = 1]_vars
    /\ (shutting_down = 1) ~> (spc = "exited")
    /\ [][shutting_down' # shutting_down => UNCHANGED <<socket, pc, recv_status, closes, wire>>]_vars
    /\ [][\A s \in Sessions :
            (pc'[s] \in {"close", "done"} /\ pc[s] \notin {"close", "done"}) =>
                pc[s] \in {"send_tm", "send_img"}]_vars

\* The astrometry thread has exited for the shutdown and session 1, having
\* received a command since, has applied it and sent its telemetry.
ShutdownWitness ==
    /\ shutting_down = 1
    /\ spc = "exited"
    /\ nsolved = 1
    /\ pc[1] = "send_img"
    /\ mycmd[1] = CmdB
    /\ Len(wire[1]) = 1
    /\ wire[1][1].data.cam_settings.exposure_time = CmdB.exposure

\* C14: one session per accepted connection.  Every connection the accept
\* loop has accepted has its session thread, the session holds the descriptor
\* of its own connection and writes to no other, and no two sessions hold the
\* same descriptor.
OneSessionPerConnection ==
    \A s \in Sessions :
        /\ pc[s] = "idle" => socket[s] = 0
        /\ pc[s] # "idle" =>
             /\ pc[s] # "nothread"
             /\ socket[s] = Fd(s)
             /\ \A i \in 1..Len(wire[s]) : wire[s][i].fd = Fd(s)
             /\ \A o \in Sessions \ {s} : socket[o] # socket[s]

\* The two writes of a cycle, without their contents.
Shape(w) == [kind |-> w.kind, fd |-> w.fd, size |-> w.size]
CycleWrites(s) ==
    <<[kind |-> "telemetry", fd |-> socket[s], size |-> sizeof_telemetry],
      [kind |-> "image", fd |-> socket[s], size |-> CAMERA_WIDTH * CAMERA_HEIGHT]>>

\* C15: wire ordering per cycle.  What a session has written in a cycle is
\* always a beginning of: one telemetry packet of the fixed size, then one
\* image frame of width x height bytes.  Nothing is written before the
\* snapshot is complete, the image is attempted only after the telemetry went
\* out, a cycle that ends normally has written both, and a session that left
\* its loop wrote nothing after the failed send.
WireOrdering ==
    \A s \in Sessions :
        /\ Len(wire[s]) <= 2
        /\ \A i \in 1..Len(wire[s]) : Shape(wire[s][i]) = CycleWrites(s)[i]
        /\ pc[s] \in {"poll", "lock"} \cup GatePcs \cup {"cp_astro", "cp_cam", "cp_blob", "send_tm"}
             => Len(wire[s]) = 0
        /\ pc[s] = "send_img" => Len(wire[s]) = 1
        /\ pc[s] = "recv" => Len(wire[s]) \in {0, 2}
        /\ pc[s] \in {"close", "done"} => Len(wire[s]) <= 1

\* Session 2 has ended a cycle in which it applied a command: it wrote the
\* telemetry and then the image, and nothing else.
WireOrderingWitness ==
    /\ pc[2] = "recv"
    /\ recv_status[2] = sizeof_commands
    /\ Len(wire[2]) = 2
    /\ wire[2][1].kind = "telemetry"
    /\ wire[2][2].kind = "image"

\* The statements of lostInSpace from solver_run to the cleanup.
InCall == spc \in {"run", "test", "write", "log", "cleanup"}

\* C16: the per-call solver resources are always released.  Outside a call
\* of lostInSpace the solver holds no field and no index partition; inside
\* one it holds the one field of this call; and every return, with a solution
\* or without, is the step that cleans the field up and clears the indexes.
ResourcesReleased ==
    /\ [](/\ ~InCall => (field = 0 /\ indexes = {})
          /\ InCall => field = 1)
    /\ [][(InCall /\ ~InCall') =>
            /\ spc = "cleanup"
            /\ field' = 0
            /\ indexes' = {}]_vars
    /\ [][(spc = "test" /\ spc' # "test") => spc' \in {"write", "cleanup"}]_vars
    /\ [][(spc = "log" /\ spc' # "log") => spc' = "cleanup"]_vars

\* A second call of lostInSpace is about to start after one that solved and
\* wrote its record: the solver holds nothing of it.
ResourcesReleasedWitness ==
    /\ spc = "setup"
    /\ nsolved = 1
    /\ datafile # <<>>
    /\ field = 0
    /\ indexes = {}

\* Session 1 executes lines 152-155.
AstroStep == pc[1] = "astro" /\ pc'[1] = "camera"

\* The blob parameters whose assignment stands under no test.
BlobUnguarded == (0..8) \ BlobGuarded

\* What C17 says of the astrometry and the camera fields, the same in the
\* claim and in its amended form.
UnguardedRule ==
    /\ AstroStep =>
         /\ all_astro_params'.logodds = all_cmds.logodds
         /\ all_astro_params'.latitude = all_cmds.latitude
         /\ all_astro_params'.longitude = all_cmds.longitude
         /\ all_astro_params'.hm = all_cmds.height
    /\ CameraStep =>
         /\ all_camera_params'.focus_mode = all_cmds.focus_mode
         /\ all_camera_params'.start_focus_pos = all_cmds.start_focus_pos
         /\ all_camera_params'.end_focus_pos = all_cmds.end_focus_pos
         /\ all_camera_params'.focus_step = all_cmds.focus_step
         /\ all_camera_params'.focus_inf = all_cmds.set_focus_inf
         /\ all_camera_params'.max_aperture = all_cmds.set_max_aperture
         /\ all_camera_params'.aperture_steps = all_cmds.aperture_steps
         /\ (all_cmds.set_focus_inf = 1 /\ all_cmds.focus_pos # D(-1)) =>
                /\ all_camera_params'.focus_inf = 1
                /\ all_camera_params'.focus_position = all_cmds.focus_pos
    /\ BlobStep =>
         /\ all_blob_params'.make_static_hp_mask = all_cmds.make_hp
         /\ all_blob_params'.use_static_hp_mask = all_cmds.use_hp

ApplyStep(s) == pc[s] \in {"astro", "camera", "blob"} /\ pc'[s] # pc[s]

\* C18: a session applies the command it received.  Each block of a
\* session's command application merges the packet this session's own
\* receive delivered in this cycle, whatever other sessions received since.
AppliesOwnCommand ==
    [][\A s \in Sessions :
         (ApplyStep(s) /\ mycmd[s] # None) =>
            /\ pc[s] = "astro" =>
                 all_astro_params' = MergeAstro(mycmd[s], all_astro_params)
            /\ pc[s] = "camera" =>
                 all_camera_params' = MergeCamera(mycmd[s], all_camera_params)
            /\ pc[s] = "blob" =>
                 all_blob_params' = MergeBlob(mycmd[s], all_blob_params)]_vars

\* C19: command application requires a received packet.  A session enters
\* the command application, and executes its blocks, only in a cycle whose
\* receive delivered a full CommandPacket; a receive that returned 0 is a
\* cycle without a command.
ApplicationNeedsPacket ==
    /\ [](\A s \in Sessions :
            Applying(s) => (recv_status[s] = sizeof_commands /\ mycmd[s] # None))
    /\ [][\A s \in Sessions :
            ApplyStep(s) => (recv_status[s] = sizeof_commands /\ mycmd[s] # None)]_vars

\* C20: the solve loop respects the gate.  The astrometry thread writes the
\* result fields only while command_lock is 0 and no session is inside the
\* command application.
SolveRespectsGate ==
    [][(spc = "write" /\ spc' = "log") =>
          /\ command_lock = 0
          /\ \A s \in Sessions : ~InGate(s)]_vars

\* C21: the gate is never left held.  command_lock is 1 only while some
\* session is between setting and clearing it; a session in there stays in
\* its loop until it has cleared the flag, and does clear it; the flag goes
\* from 1 to 0 only by the release of a session that set it in this cycle;
\* hence command_lock = 1 always leads to command_lock = 0.
GateReleased ==
    /\ [](command_lock = 1 => \E s \in Sessions : InGate(s))
    /\ [][\A s \in Sessions :
            InGate(s) => pc'[s] \in GatePcs \cup {"cp_astro"}]_vars
    /\ [][(command_lock = 1 /\ command_lock' = 0) =>
            \E s \in Sessions :
                /\ pc[s] = "unlock" /\ pc'[s] = "cp_astro"
                /\ recv_status[s] # -1]_vars
    /\ \A s \in Sessions : (pc[s] = "astro") ~> (pc[s] = "cp_astro")
    /\ (command_lock = 1) ~> (command_lock = 0)

\* Session 1 has set the flag, applied CmdA and cleared the flag, while
\* session 2 waits at the gate.
GateReleasedWitness ==
    /\ pc[1] = "cp_astro"
    /\ recv_status[1] = sizeof_commands
    /\ all_blob_params.make_static_hp_mask = CmdA.make_hp
    /\ command_lock = 0
    /\ pc[2] = "poll"

\* C22: no starvation at the gate.  Every session thread being scheduled
\* again and again, a session that has received a command and tests
\* command_lock eventually passes the test, sets the flag and applies its
\* command.
NoStarvation ==
    \A s \in Sessions :
        (pc[s] = "poll" /\ recv_status[s] = sizeof_commands) ~> (pc[s] = "unlock")

====
